---- MODULE Spec2Model ----
(***************************************************************************)
(* A model of the vt-go client library.                                    *)
(*                                                                         *)
(* Part I: the paginated collection iterator (Iterator, its background     *)
(* producer goroutine `iterate`, the buffered delivery channel `ch`, the   *)
(* unbuffered cancellation channel `done`) and the cursor codec.           *)
(*                                                                         *)
(* The server is the environment: a collection of numItems objects, served *)
(* in pages of pageSize objects.  Objects are identified by their absolute *)
(* position 1..numItems in the collection.  A link is a natural number:    *)
(* link p > 0 is the URL of page p, NoLink is the empty string.  Every     *)
(* page response carries links.self (its own URL) and links.next (the URL  *)
(* of the following page, or the empty string on the last page).           *)
(*                                                                         *)
(* Part II: Object, its typed attribute accessors and setters, its JSON    *)
(* decoding and the partial encoding of the attributes modified locally.   *)
(*                                                                         *)
(* Part III: the responses of the API as Client.parseResponse reads them,  *)
(* and CollectionBuilder.                                                  *)
(*                                                                         *)
(* The specifications share the variables: Spec and FairSpec run an        *)
(* iterator against the server, StartSpec calls Client.Iterator once with  *)
(* every combination of options, ObjSpec calls the methods of one Object,  *)
(* AccessSpec reads a decoded Object, RelSpec decodes relationships,       *)
(* ClientSpec gets data and objects from every response, CollSpec builds   *)
(* a collection, UpdateSpec sets attributes and patches the object,        *)
(* ScanSpec uploads one file with FileScanner.scanWithParameters.          *)
(***************************************************************************)
EXTENDS Integers, Sequences, FiniteSets, TLC

\* ------------------------------------------------------------------ bounds
MaxItems == 3
MaxPageSize == 3
MaxLimit == 2
MaxResumes == 2
MaxCloses == 2
MaxBatch == 2
MaxOps == 2
MaxTexts == 3
MaxChunks == 2
MaxParams == 2

\* --------------------------------------------------------------- constants
\* make(chan interface{}, 50)
ChanCap == 50

\* A page that does not fit in the channel together with the items a
\* limited consumer takes out of it.
BigPage == ChanCap + MaxLimit + 1

NoLink == 0
NoErr == "nil"
Nil == 0
EmptyString == <<>>

\* The errors Client.GetData hands to getMoreObjects: a transport failure,
\* an API error envelope (its code), a page that does not decode.
Errors == {"TransportError", "NotFoundError", "DecodeError"}

VARIABLES
  obj,          \* an Object: the fields of obj.data and modifiedAttributes
  ret,          \* the last call of a method of obj and what it returned
  log,          \* history: the Set and UnmarshalJSON calls on obj, in order
  options,      \* the IteratorOptions of the last call of Client.Iterator
  newErr,       \* the error the last call of Client.Iterator returned
  numItems,     \* server: number of objects in the collection
  pageSize,     \* server: objects per page
  limit,        \* it.limit
  ch,           \* it.ch: the items buffered in the channel
  chClosed,     \* close(it.ch) has run
  doneClosed,   \* close(it.done) has run
  closed,       \* it.closed
  next,         \* it.next: the current object, Nil before the first one
  err,          \* it.err
  count,        \* it.count
  cursor,       \* it.cursor: the encoded cursor of the current object
  links,        \* it.links
  ppc,          \* producer goroutine: position in iterate
  skip,         \* iterate: skip
  sent,         \* iterate: sent
  objects,      \* iterate: objects (after objects[skip:])
  idx,          \* iterate: i of the range loop
  perr,         \* iterate: err of the last getMoreObjects
  cpc,          \* consumer: "idle", "recv" (blocked in <-it.ch), "closeSend"
  panic,        \* the runtime panic that ended the program, or ""
  lastRet,      \* result of the last IteratorNext call: "none", "true", "false"
  yielded,      \* history: objects Get() returned after each true Next
  fetched,      \* history: links requested by this iterator, in order
  base,         \* history: the object whose cursor started this iterator
  resumes,      \* history: how many times the owner resumed from a cursor
  closeCalls,   \* history: number of Close calls on this iterator
  afterCancel,  \* history: "no", "raised" (done signal delivered), "advanced"
  fileSize,     \* scanWithParameters: fileSize against the two maxima
  todo,         \* upload goroutine: the writes into the pipe still to make
  wpc,          \* upload goroutine: "none", "run", "done" (it returned)
  pipe,         \* the io.Pipe: "open", "eof" (Close), "error" (CloseWithError)
  spc,          \* scanWithParameters: "none", "chooseURL", "send", "returned"
  scanErr       \* the error scanWithParameters returned

vars == <<obj, ret, log, options, newErr, numItems, pageSize, limit, ch, chClosed, doneClosed, closed, next,
          err, count, cursor, links, ppc, skip, sent, objects, idx, perr,
          cpc, panic, lastRet, yielded, fetched, base, resumes, closeCalls,
          afterCancel, fileSize, todo, wpc, pipe, spc, scanErr>>

objectVars == <<obj, ret, log>>
call == <<options, newErr>>
server == <<numItems, pageSize>>
consumerFields == <<next, err, count, cursor>>
producerLocals == <<skip, sent, objects, idx, perr, links>>
history == <<yielded, fetched, base, resumes, closeCalls, afterCancel>>
uploadVars == <<fileSize, todo, wpc, pipe, spc, scanErr>>

\* ----------------------------------------------------------------- objects
\* Part II: Object, its attribute accessors, its JSON decoding and the
\* partial ("modified") encoding sent in updates.
\*
\* A Go value held in an interface{} is its dynamic type and its content, a
\* natural number: the integer itself, the float with that value, the n-th
\* string, 0/1 for false/true.  A json.Number holds the decimal text of an
\* integer.  A time is a natural number of half seconds, so that it has a
\* part below the second.
Val(t, v) == [type |-> t, val |-> v]
NilValue == Val("nil", 0)

\* A JSON value: number, string, bool or null, with the same content; an
\* object, whose content is a function from names to JSON values; an array,
\* whose content is a sequence of JSON values.
JSON(t, v) == [type |-> t, val |-> v]

\* Integers beyond 31 bits.  The content c of a number stands for the
\* integer High(c) * 2^53 + Low(c), with Low(c) < 2^20: below Big it is the
\* integer itself, Big is 2^53 and Big + 1 is 9007199254740993.  An int64
\* holds the integers with High below Int64High, since 2^63 is 1024 * 2^53.
Big == 1048576
Int64High == 1024
High(c) == c \div Big
Low(c) == c % Big

\* json.Number.Int64, strconv.ParseInt(text, 10, 64): the integer written,
\* or a range error when it is not an int64.
Int64(c) ==
  IF High(c) < Int64High THEN [val |-> c, err |-> NoErr]
                         ELSE [val |-> 0, err |-> "value out of range"]

\* The distance between two float64 next to an integer with this High: 1 or
\* less below 2^53, then twice the power of two at or under High.
RECURSIVE Spacing(_)
Spacing(h) == IF h = 0 THEN 1 ELSE IF h = 1 THEN 2 ELSE 2 * Spacing(h \div 2)

\* json.Number.Float64, strconv.ParseFloat(text, 64): the nearest float64,
\* a tie going to the even mantissa.
Float64(c) ==
  LET s == Spacing(High(c))
      q == Low(c) \div s
      r == Low(c) % s
      up == 2 * r > s \/ (2 * r = s /\ q % 2 = 1)
  IN  [val |-> High(c) * Big + (IF up THEN q + 1 ELSE q) * s, err |-> NoErr]

Names == {"a", "b"}
Kinds == {"int64", "float64", "string", "bool", "time"}

\* The calls of typed setters: every setter on "a", two integers on each
\* name.  Time 3 is one second and a half.
SetInputs ==
  {<<"a", "int64", 1>>, <<"a", "int64", 2>>, <<"a", "float64", 1>>,
   <<"a", "string", 1>>, <<"a", "bool", 1>>, <<"a", "time", 3>>,
   <<"b", "int64", 1>>, <<"b", "int64", 2>>}

\* time.Time.Unix: the whole seconds of t;  time.Unix(sec, 0).
Unix(t) == t \div 2
TimeUnix(sec) == 2 * sec

\* A Go map: nil (reads as empty, a write panics) or a mapping.
NilMap == [isNil |-> TRUE, kv |-> <<>>]
MakeMap == [isNil |-> FALSE, kv |-> <<>>]
Has(m, key) == key \in DOMAIN m.kv
Put(m, key, v) ==
  [isNil |-> FALSE,
   kv |-> [n \in (DOMAIN m.kv) \cup {key} |-> IF n = key THEN v ELSE m.kv[n]]]

\* NewObject(objType) and NewObjectWithID(objType, id).
NewObjectWithID(objType, id) ==
  [ID |-> id, Type |-> objType, Attributes |-> MakeMap,
   ContextAttributes |-> NilMap, Relationships |-> <<>>, Links |-> NoLink,
   modifiedAttributes |-> <<>>]
NewObject(objType) == NewObjectWithID(objType, "")

\* encoding/json on attribute values.  Decoding with UseNumber keeps a number
\* as json.Number; encoding writes int64, float64 and json.Number as a number.
\* An object decodes to a map[string]interface{} and an array to a
\* []interface{}, value by value.
RECURSIVE FromJSON(_)
FromJSON(j) ==
  IF j.type = "number" THEN Val("json.Number", j.val)
  ELSE IF j.type = "null" THEN NilValue
  ELSE IF j.type = "object"
         THEN Val("map", [n \in DOMAIN j.val |-> FromJSON(j.val[n])])
  ELSE IF j.type = "array"
         THEN Val("slice", [i \in DOMAIN j.val |-> FromJSON(j.val[i])])
  ELSE Val(j.type, j.val)
RECURSIVE ToJSON(_)
ToJSON(v) ==
  IF v.type \in {"int64", "float64", "json.Number"} THEN JSON("number", v.val)
  ELSE IF v.type = "nil" THEN JSON("null", 0)
  ELSE IF v.type = "map"
         THEN JSON("object", [n \in DOMAIN v.val |-> ToJSON(v.val[n])])
  ELSE IF v.type = "slice"
         THEN JSON("array", [i \in DOMAIN v.val |-> ToJSON(v.val[i])])
  ELSE JSON(v.type, v.val)

\* A JSON object with fields of values, or the absence of the field.
Absent == [present |-> FALSE, kv |-> <<>>]
Fields(f) == [present |-> TRUE, kv |-> f]

\* Decoding a JSON object into a map[string]interface{} field: an absent
\* field leaves the nil map.
DecodeMap(j) ==
  IF j.present
    THEN [isNil |-> FALSE, kv |-> [n \in DOMAIN j.kv |-> FromJSON(j.kv[n])]]
    ELSE NilMap

\* The orders in which a set of names can be ranged over.
Orders(names) ==
  {order \in [1..Cardinality(names) -> names] :
     \A i, j \in DOMAIN order : i # j => order[i] # order[j]}

\* A relationship as decoded into objectData: the raw data, nothing related.
Undecoded(raw) == [Data |-> raw, IsOneToOne |-> FALSE, Objects |-> <<>>]

\* Object.UnmarshalJSON: obj.data = od, the payload decoded into a fresh
\* objectData, then the loop over the relationships, here in the order
\* given (Go ranges over the map in any order), which returns at the first
\* that fails; modifiedAttributes is not touched.  The result is the
\* object after the call and the error.
RECURSIVE Unmarshal(_, _, _)
AnyOrder(p) == CHOOSE order \in Orders(DOMAIN p.relationships) : TRUE

\* The elements of an array decoded into []*Object, up to the first that is
\* not an object, and the error of that one.
RECURSIVE DecodeObjects(_)
DecodeObjects(elements) ==
  IF elements = <<>> THEN [objects |-> <<>>, err |-> NoErr]
  ELSE IF Head(elements).type # "object"
    THEN [objects |-> <<>>, err |-> "DecodeError"]
  ELSE LET o == Unmarshal(NewObject(""), Head(elements).val,
                            AnyOrder(Head(elements).val))
           rest == DecodeObjects(Tail(elements))
       IN  IF o.err # NoErr THEN [objects |-> <<>>, err |-> o.err]
           ELSE [objects |-> <<o.obj>> \o rest.objects, err |-> rest.err]

\* The body of the loop for one relationship: its data decoded as an Object
\* and, if that fails, as an array of them.  Null decodes as an Object
\* without error and leaves it empty.
DecodeRelationship(v) ==
  LET asObject == IF v.Data.type = "object"
                    THEN Unmarshal(NewObject(""), v.Data.val,
                                   AnyOrder(v.Data.val))
                    ELSE [obj |-> NewObject(""),
                          err |-> IF v.Data.type = "null" THEN NoErr
                                                          ELSE "DecodeError"]
      asArray == IF v.Data.type = "array"
                   THEN DecodeObjects(v.Data.val)
                   ELSE [objects |-> <<>>, err |-> "DecodeError"]
  IN  IF asObject.err = NoErr
        THEN [v |-> [v EXCEPT !.IsOneToOne = TRUE,
                              !.Objects =
                                IF asObject.obj.ID = "" /\ asObject.obj.Type = ""
                                  THEN <<>>
                                  ELSE Append(v.Objects, asObject.obj)],
              err |-> NoErr]
        ELSE [v |-> [v EXCEPT !.Objects = asArray.objects],
              err |-> asArray.err]

RECURSIVE RangeRelationships(_, _)
RangeRelationships(rels, order) ==
  IF order = <<>> THEN [rels |-> rels, err |-> NoErr]
  ELSE LET d == DecodeRelationship(rels[Head(order)])
           done == [rels EXCEPT ![Head(order)] = d.v]
       IN  IF d.err # NoErr THEN [rels |-> done, err |-> d.err]
           ELSE RangeRelationships(done, Tail(order))

Unmarshal(o, p, order) ==
  LET od == [n \in DOMAIN p.relationships |-> Undecoded(p.relationships[n])]
      ranged == RangeRelationships(od, order)
  IN  [obj |-> [ID |-> p.id, Type |-> p.type,
                Attributes |-> DecodeMap(p.attributes),
                ContextAttributes |-> DecodeMap(p.context_attributes),
                Relationships |-> ranged.rels,
                Links |-> p.links,
                modifiedAttributes |-> o.modifiedAttributes],
       err |-> ranged.err]

\* The object after UnmarshalJSON, for a payload whose relationships all
\* decode: the order makes no difference then.
UnmarshalJSON(o, p) == Unmarshal(o, p, AnyOrder(p)).obj

\* The value a typed setter hands to Set: the argument as it is, and for
\* SetTime value.Unix(), an int64.
Stored(k, v) ==
  IF k = "time" THEN Val("int64", Unix(v)) ELSE Val(k, v)

\* Object.Set: append to modifiedAttributes, then store.  The result is the
\* object after the call; the store panics on a nil map, after the append.
SetPanics(o) == o.Attributes.isNil

\* Faulty variant of Set: the value is stored in a map made anew.
Set_NewMap(o, attr, value) ==
  [o EXCEPT !.modifiedAttributes = Append(@, attr),
            !.Attributes = IF SetPanics(o) THEN @ ELSE Put(MakeMap, attr, value)]

Set(o, attr, value) ==
  [o EXCEPT !.modifiedAttributes = Append(@, attr),
            !.Attributes = IF SetPanics(o) THEN @ ELSE Put(@, attr, value)]

\* Results of the accessors: a content and an error.
Result(v, e) == [val |-> v, err |-> e]

\* Object.Get
Get(o, attr) ==
  IF Has(o.Attributes, attr)
    THEN [value |-> o.Attributes.kv[attr], err |-> NoErr]
    ELSE [value |-> NilValue, err |-> "does not exists"]

\* Object.getAttributeNumber: the attribute asserted to be a json.Number.
getAttributeNumber(o, attr) ==
  IF Get(o, attr).err # NoErr THEN Result(0, Get(o, attr).err)
  ELSE IF Get(o, attr).value.type # "json.Number"
         THEN Result(0, "is not a number")
         ELSE Result(Get(o, attr).value.val, NoErr)

\* Faulty variant of GetInt64: the integer read through a float64.
GetInt64_ViaFloat64(o, attr) ==
  IF getAttributeNumber(o, attr).err = NoErr
    THEN Float64(getAttributeNumber(o, attr).val)
    ELSE Result(0, getAttributeNumber(o, attr).err)

\* GetInt64, GetFloat64, GetTime: the number parsed from the json.Number.
GetInt64(o, attr) ==
  IF getAttributeNumber(o, attr).err = NoErr
    THEN Int64(getAttributeNumber(o, attr).val)
    ELSE Result(0, getAttributeNumber(o, attr).err)
GetFloat64(o, attr) ==
  IF getAttributeNumber(o, attr).err = NoErr
    THEN Float64(getAttributeNumber(o, attr).val)
    ELSE Result(0, getAttributeNumber(o, attr).err)
GetTime(o, attr) ==
  IF getAttributeNumber(o, attr).err = NoErr
    THEN Result(TimeUnix(Int64(getAttributeNumber(o, attr).val).val),
                Int64(getAttributeNumber(o, attr).val).err)
    ELSE Result(TimeUnix(0), getAttributeNumber(o, attr).err)

\* GetString, GetBool: the attribute asserted to be a string, a bool.
GetString(o, attr) ==
  IF Get(o, attr).err # NoErr THEN Result(0, Get(o, attr).err)
  ELSE IF Get(o, attr).value.type # "string"
         THEN Result(0, "is not a string")
         ELSE Result(Get(o, attr).value.val, NoErr)
GetBool(o, attr) ==
  IF Get(o, attr).err # NoErr THEN Result(0, Get(o, attr).err)
  ELSE IF Get(o, attr).value.type # "bool"
         THEN Result(0, "is not a bool")
         ELSE Result(Get(o, attr).value.val, NoErr)

\* Object.GetContext and getContextAttributeNumber
GetContext(o, attr) ==
  IF Has(o.ContextAttributes, attr)
    THEN [value |-> o.ContextAttributes.kv[attr], err |-> NoErr]
    ELSE [value |-> NilValue, err |-> "does not exists"]
getContextAttributeNumber(o, name) ==
  IF ~Has(o.ContextAttributes, name) THEN Result(0, "does not exists")
  ELSE IF o.ContextAttributes.kv[name].type # "json.Number"
         THEN Result(0, "is not a number")
         ELSE Result(o.ContextAttributes.kv[name].val, NoErr)

\* GetContextInt64, GetContextFloat64, GetContextString, GetContextBool
GetContextInt64(o, attr) ==
  IF getContextAttributeNumber(o, attr).err = NoErr
    THEN Int64(getContextAttributeNumber(o, attr).val)
    ELSE Result(0, getContextAttributeNumber(o, attr).err)
GetContextFloat64(o, attr) ==
  IF getContextAttributeNumber(o, attr).err = NoErr
    THEN Float64(getContextAttributeNumber(o, attr).val)
    ELSE Result(0, getContextAttributeNumber(o, attr).err)
\* Faulty variant of GetContextString: the failed assertion is not reported.
GetContextString_Unchecked(o, attr) ==
  IF ~Has(o.ContextAttributes, attr) THEN Result(0, "does not exists")
  ELSE IF o.ContextAttributes.kv[attr].type # "string"
         THEN Result(0, NoErr)
         ELSE Result(o.ContextAttributes.kv[attr].val, NoErr)

GetContextString(o, attr) ==
  IF ~Has(o.ContextAttributes, attr) THEN Result(0, "does not exists")
  ELSE IF o.ContextAttributes.kv[attr].type # "string"
         THEN Result(0, "is not a string")
         ELSE Result(o.ContextAttributes.kv[attr].val, NoErr)
GetContextBool(o, attr) ==
  IF ~Has(o.ContextAttributes, attr) THEN Result(0, "does not exists")
  ELSE IF o.ContextAttributes.kv[attr].type # "bool"
         THEN Result(0, "is not a bool")
         ELSE Result(o.ContextAttributes.kv[attr].val, NoErr)

\* The typed accessor of context attributes of kind k; there is none for
\* times.
ContextGetter(k, o, attr) ==
  IF k = "int64" THEN GetContextInt64(o, attr)
  ELSE IF k = "float64" THEN GetContextFloat64(o, attr)
  ELSE IF k = "string" THEN GetContextString(o, attr)
  ELSE GetContextBool(o, attr)

\* The typed accessor of kind k.
Getter(k, o, attr) ==
  IF k = "int64" THEN GetInt64(o, attr)
  ELSE IF k = "float64" THEN GetFloat64(o, attr)
  ELSE IF k = "string" THEN GetString(o, attr)
  ELSE IF k = "bool" THEN GetBool(o, attr)
  ELSE GetTime(o, attr)

\* The names in a list, without repetition.
NamesIn(list) == {list[i] : i \in 1..Len(list)}

\* Faulty variant of modifiedObject_MarshalJSON: every attribute is encoded.
modifiedObject_MarshalJSON_All(o) ==
  [id |-> o.ID, type |-> o.Type,
   attributes |->
     Fields([n \in DOMAIN o.Attributes.kv |-> ToJSON(o.Attributes.kv[n])]),
   context_attributes |-> Absent, relationships |-> {}, links |-> NoLink]

\* modifiedObject.MarshalJSON: id, type and, for each name listed in
\* modifiedAttributes, the value the attribute has now (nil, written as
\* null, when the object has no such attribute).  An empty attribute map is
\* left out of the document (omitempty), as are the fields never filled in.
modifiedObject_MarshalJSON(o) ==
  [id |-> o.ID, type |-> o.Type,
   attributes |->
     IF o.modifiedAttributes = <<>>
       THEN Absent
       ELSE Fields([n \in NamesIn(o.modifiedAttributes) |->
                      ToJSON(Get(o, n).value)]),
   context_attributes |-> Absent, relationships |-> {}, links |-> NoLink]

\* A map[string]interface{} field tagged omitempty: left out when the map
\* is nil or empty.
EncodeMap(m) ==
  IF DOMAIN m.kv = {}
    THEN Absent
    ELSE Fields([n \in DOMAIN m.kv |-> ToJSON(m.kv[n])])

\* Object.MarshalJSON: json.Marshal(obj.data), every field of objectData
\* that is not empty.
Object_MarshalJSON(o) ==
  [id |-> o.ID, type |-> o.Type,
   attributes |-> EncodeMap(o.Attributes),
   context_attributes |-> EncodeMap(o.ContextAttributes),
   relationships |-> DOMAIN o.Relationships, links |-> o.Links]

\* The payloads decoded into an object: one without the attributes field,
\* and one with attributes of both JSON types and everything else an object
\* of a relationship listing carries.
Payloads ==
  {[id |-> "id1", type |-> "file", attributes |-> Absent,
    context_attributes |-> Absent, relationships |-> <<>>, links |-> NoLink],
   [id |-> "id1", type |-> "file",
    attributes |-> Fields([n \in Names |-> IF n = "a" THEN JSON("number", 1)
                                                      ELSE JSON("string", 1)]),
    context_attributes |-> Fields([n \in {"ctx"} |-> JSON("number", 1)]),
    relationships |-> [rel |-> JSON("array", <<>>)], links |-> 1]}

\* No object is in use.
NoBody == [id |-> "", type |-> "", attributes |-> Absent,
           context_attributes |-> Absent, relationships |-> {}, links |-> NoLink]
NoRet == [op |-> "none", attr |-> "", kind |-> "", val |-> 0, err |-> NoErr,
          body |-> NoBody]
NoObject ==
  /\ obj = NewObject("") /\ ret = NoRet /\ log = <<>>

\* No call of scanWithParameters was made.
NoUpload ==
  /\ fileSize = "small" /\ todo = <<>> /\ wpc = "none" /\ pipe = "open"
  /\ spc = "none" /\ scanErr = NoErr

\* ------------------------------------------------------------------ server
Min(a, b) == IF a < b THEN a ELSE b
Max(a, b) == IF a > b THEN a ELSE b

\* Number of objects on page p.
PageLen(p) == Max(0, Min(pageSize, numItems - (p - 1) * pageSize))

\* The "data" array of page p.
PageData(p) == [i \in 1..PageLen(p) |-> (p - 1) * pageSize + i]

\* The "links" object of page p.
PageLinks(p) ==
  [Self |-> p, Next |-> IF p * pageSize < numItems THEN p + 1 ELSE NoLink]

\* The collection URL the iterator is created for addresses the first page.
CollectionURL == 1

\* ------------------------------------------------------------ cursor codec
\* Faulty variant of encode: the offset is not serialised.
encode_NoOffset(c) ==
  IF c.Link = NoLink THEN EmptyString ELSE <<"b64", c.Link, 0>>

\* cursor.encode: the empty string for an empty link, else the base64 of the
\* deflated JSON of {Link, Offset}: an opaque non-empty token that holds both.
encode(c) ==
  IF c.Link = NoLink THEN EmptyString ELSE <<"b64", c.Link, c.Offset>>

\* cursor.decode: the zero cursor for the empty string, else the pipeline
\* reversed.
decode(s) ==
  IF s = EmptyString
    THEN [Link |-> NoLink, Offset |-> 0]
    ELSE [Link |-> s[2], Offset |-> s[3]]

\* Strings that are not the image of encode, one for each stage of the
\* pipeline that rejects them: not base64, base64 of bytes that do not
\* inflate, and deflated bytes that are not JSON.  They leave the cursor at
\* its zero value.
BadCursors ==
  {<<"notBase64", 0, 0>>, <<"notDeflate", 0, 0>>, <<"notJSON", 0, 0>>}

\* Faulty variant of decodeErr: every string is accepted.
decodeErr_Lenient(s) == NoErr

\* cursor.decode, the error it returns: the error json.Decoder.Decode reports,
\* which is the error of the first stage that failed.
decodeErr(s) ==
  IF s = EmptyString THEN NoErr
  ELSE IF s[1] = "notBase64" THEN "base64.CorruptInputError"
  ELSE IF s[1] = "notDeflate" THEN "flate.CorruptInputError"
  ELSE IF s[1] = "notJSON" THEN "json.SyntaxError"
  ELSE NoErr

\* ---------------------------------------------------------------- iterator
\* strconv.Itoa: the decimal text of n.
Itoa(n) == <<"dec", n>>

\* url.Values for the keys newIterator adds: each key maps to the list of its
\* values.  The collection URL carries no query of its own.
NoQuery == [limit |-> <<>>, filter |-> <<>>]

\* q after the two conditional q.Add calls.
Query(o) ==
  [limit  |-> IF o.BatchSize > 0 THEN <<Itoa(o.BatchSize)>> ELSE <<>>,
   filter |-> IF o.Filter # "" THEN <<o.Filter>> ELSE <<>>]

\* u.String() after u.RawQuery = q.Encode(): the URL itself when the encoded
\* query is empty, else the URL followed by "?" and the query.
URLString(u, q) == IF q = NoQuery THEN u ELSE [path |-> u, query |-> q]

\* Faulty variant of newIterator: the offset of the cursor is dropped.
newIterator_NoSkip(u, o) ==
  IF o.Cursor # EmptyString
    THEN IF decodeErr(o.Cursor) # NoErr
           THEN [err   |-> decodeErr(o.Cursor),
                 links |-> [Self |-> NoLink, Next |-> NoLink], skip |-> 0]
           ELSE [err   |-> NoErr,
                 links |-> [Self |-> NoLink, Next |-> decode(o.Cursor).Link],
                 skip  |-> 0]
    ELSE [err   |-> NoErr,
          links |-> [Self |-> NoLink, Next |-> URLString(u, Query(o))],
          skip  |-> 0]

\* newIterator: the error it returns, and when that is nil the link the
\* producer fetches first and the number of objects of that page it drops.
\* A non-empty options.Cursor is decoded into both; otherwise the iterator
\* starts at the collection URL with the query built from the options.
newIterator(u, o) ==
  IF o.Cursor # EmptyString
    THEN IF decodeErr(o.Cursor) # NoErr
           THEN [err   |-> decodeErr(o.Cursor),
                 links |-> [Self |-> NoLink, Next |-> NoLink], skip |-> 0]
           ELSE [err   |-> NoErr,
                 links |-> [Self |-> NoLink, Next |-> decode(o.Cursor).Link],
                 skip  |-> decode(o.Cursor).Offset]
    ELSE [err   |-> NoErr,
          links |-> [Self |-> NoLink, Next |-> URLString(u, Query(o))],
          skip  |-> 0]

\* The values that travel through it.ch.
collectionObject(o, c) == [object |-> o, cursor |-> c, error |-> NoErr]
errorItem(e) == [object |-> Nil, cursor |-> decode(EmptyString), error |-> e]

\* Options that set only Limit.
LimitOnly(l) ==
  [Limit |-> l, BatchSize |-> 0, Cursor |-> EmptyString, Filter |-> ""]

\* State right after newIterator returned: empty channels, the goroutine
\* `go it.iterate(skip)` at the top of its loop.
Start(n, ps, l) ==
  /\ NoObject
  /\ options = LimitOnly(l) /\ newErr = NoErr
  /\ numItems = n /\ pageSize = ps /\ limit = l
  /\ ch = <<>> /\ chClosed = FALSE /\ doneClosed = FALSE /\ closed = FALSE
  /\ next = Nil /\ err = NoErr /\ count = 0 /\ cursor = EmptyString
  /\ links = newIterator(CollectionURL, LimitOnly(l)).links
  /\ skip = newIterator(CollectionURL, LimitOnly(l)).skip
  /\ ppc = "loop" /\ sent = 0 /\ objects = <<>> /\ idx = 0 /\ perr = NoErr
  /\ cpc = "idle" /\ panic = "" /\ lastRet = "none"
  /\ yielded = <<>> /\ fetched = <<>> /\ base = 0 /\ resumes = 0
  /\ closeCalls = 0 /\ afterCancel = "no"
  /\ NoUpload

Init ==
  \/ \E n \in 0..MaxItems, ps \in 1..MaxPageSize, l \in 0..MaxLimit :
       Start(n, ps, l)
  \/ \E l \in 1..MaxLimit : Start(BigPage, BigPage, l)

\* Client.Iterator(u, o): newIterator makes the iterator (its fields at their
\* zero values, limit and links set) and spawns the producer, or returns the
\* decode error and no iterator, in which case no goroutine exists.
ClientIterator(u, o) ==
  /\ options' = o
  /\ newErr' = newIterator(u, o).err
  /\ limit' = o.Limit
  /\ links' = newIterator(u, o).links
  /\ skip' = newIterator(u, o).skip
  /\ ch' = <<>> /\ chClosed' = FALSE /\ doneClosed' = FALSE /\ closed' = FALSE
  /\ next' = Nil /\ err' = NoErr /\ count' = 0 /\ cursor' = EmptyString
  /\ ppc' = IF newIterator(u, o).err = NoErr THEN "loop" ELSE "none"
  /\ cpc' = IF newIterator(u, o).err = NoErr THEN "idle" ELSE "noIterator"
  /\ sent' = 0 /\ objects' = <<>> /\ idx' = 0 /\ perr' = NoErr
  /\ lastRet' = "none"
  /\ yielded' = <<>> /\ fetched' = <<>>
  /\ closeCalls' = 0 /\ afterCancel' = "no"

Running == panic = ""

\* ------------------------------------------------------ producer: iterate
\* Faulty variant of LoopGuard: for it.limit == 0 || sent <= it.limit
LoopGuard_Inclusive(lim, n) == lim = 0 \/ n <= lim

\* for it.limit == 0 || sent < it.limit
LoopGuard(lim, n) == lim = 0 \/ n < lim

\* Faulty variant of Drop: objects[skip+1:]
Drop_OffByOne(objs, k) == SubSeq(objs, k + 2, Len(objs))

\* objects[skip:] is a runtime panic when skip exceeds len(objects).
SliceOK(objs, k) == k <= Len(objs)
Drop(objs, k) == SubSeq(objs, k + 1, Len(objs))

\* Faulty variant of ItemCursor: the offset counts from the slice, not from the page.
ItemCursor_NoSkip(i, n, sk, lnk) ==
  IF i = n - 1
    THEN [Link |-> lnk.Next, Offset |-> 0]
    ELSE [Link |-> lnk.Self, Offset |-> i + 1]

\* Faulty variant of ItemCursor: the last object is not told apart.
ItemCursor_LastSelf(i, n, sk, lnk) == [Link |-> lnk.Self, Offset |-> sk + i + 1]

\* Faulty variant of ItemCursor: every cursor points at the next page.
ItemCursor_NextLink(i, n, sk, lnk) ==
  IF i = n - 1
    THEN [Link |-> lnk.Next, Offset |-> 0]
    ELSE [Link |-> lnk.Next, Offset |-> sk + i + 1]

\* The cursor of objects[i] (i counts from 0) in a page of n objects.
ItemCursor(i, n, sk, lnk) ==
  IF i = n - 1
    THEN [Link |-> lnk.Next, Offset |-> 0]
    ELSE [Link |-> lnk.Self, Offset |-> sk + i + 1]

\* Faulty variant of PageEndsLoop: && in the place of ||
PageEndsLoop_Both(objs, lnk) == Len(objs) = 0 /\ lnk.Next = NoLink

\* Faulty variant of PageEndsLoop: if len(objects) == 0 { break loop }
PageEndsLoop_OnlyEmpty(objs, lnk) == Len(objs) = 0

\* Faulty variant of PageEndsLoop: if it.links.Next == "" { break loop }
PageEndsLoop_OnlyNext(objs, lnk) == lnk.Next = NoLink

\* if len(objects) == 0 || it.links.Next == "" { break loop }
PageEndsLoop(objs, lnk) == Len(objs) = 0 \/ lnk.Next = NoLink

\* The value the producer is offering to the channel.
Offered ==
  IF perr # NoErr
    THEN errorItem(perr)
    ELSE collectionObject(objects[idx + 1],
                          ItemCursor(idx, Len(objects), skip, links))

\* Faulty variant of HasRoom: one item more than the capacity is accepted.
HasRoom_OneMore(c) == Len(c) <= ChanCap

\* A send on it.ch is ready when the buffer holds fewer items than its
\* capacity.  (A consumer blocked in <-it.ch has emptied the buffer before,
\* so a hand-over to a waiting receiver is a send into an empty buffer.)
HasRoom(c) == Len(c) < ChanCap

\* The loop condition of iterate.
LoopTest ==
  /\ Running /\ ppc = "loop"
  /\ ppc' = IF LoopGuard(limit, sent) THEN "fetch" ELSE "markClosed"
  /\ UNCHANGED <<objectVars, uploadVars, call, server, limit, ch, chClosed, doneClosed, closed,
                 consumerFields, producerLocals, cpc, panic, lastRet, history>>

\* getMoreObjects answers with a page: it.links = resp.Links, then
\* objects = objects[skip:] and the test that follows an empty range loop.
FetchOk ==
  /\ Running /\ ppc = "fetch"
  /\ fetched' = Append(fetched, links.Next)
  /\ links' = PageLinks(links.Next)
  /\ perr' = NoErr
  /\ idx' = 0
  /\ IF SliceOK(PageData(links.Next), skip)
       THEN /\ objects' = Drop(PageData(links.Next), skip)
            /\ panic' = panic
            /\ IF Len(objects') > 0
                 THEN ppc' = "send" /\ skip' = skip
                 ELSE IF PageEndsLoop(objects', links')
                        THEN ppc' = "markClosed" /\ skip' = skip
                        ELSE ppc' = "loop" /\ skip' = 0
       ELSE /\ objects' = <<>>
            /\ ppc' = "panic" /\ skip' = skip
            /\ panic' = "slice bounds out of range"
  /\ UNCHANGED <<objectVars, uploadVars, call, server, limit, ch, chClosed, doneClosed, closed,
                 consumerFields, sent, cpc, lastRet, yielded, base,
                 resumes, closeCalls, afterCancel>>

\* getMoreObjects answers with an error: objects is nil, it.links is kept.
FetchErr ==
  /\ Running /\ ppc = "fetch"
  /\ \E e \in Errors : perr' = e
  /\ fetched' = Append(fetched, links.Next)
  /\ objects' = <<>>
  /\ idx' = 0
  /\ ppc' = "send"
  /\ UNCHANGED <<objectVars, uploadVars, call, server, limit, ch, chClosed, doneClosed, closed,
                 consumerFields, links, skip, sent, cpc, panic, lastRet,
                 yielded, base, resumes, closeCalls, afterCancel>>

\* trySendToChannel, case it.ch <- item: the channel has room.  After an
\* error was delivered iterate goes on to objects[skip:] with objects nil;
\* after an object it counts it and moves to the next one or ends the page.
SendOk ==
  /\ Running /\ ppc = "send"
  /\ HasRoom(ch)
  /\ ch' = Append(ch, Offered)
  /\ IF perr # NoErr
       THEN /\ IF ~SliceOK(<<>>, skip)
                 THEN /\ ppc' = "panic" /\ skip' = skip
                      /\ panic' = "slice bounds out of range"
                 ELSE /\ panic' = panic
                      /\ IF PageEndsLoop(Drop(<<>>, skip), links)
                           THEN ppc' = "markClosed" /\ skip' = skip
                           ELSE ppc' = "loop" /\ skip' = 0
            /\ UNCHANGED <<sent, idx>>
       ELSE /\ sent' = sent + 1
            /\ idx' = idx + 1
            /\ panic' = panic
            /\ IF idx + 1 < Len(objects)
                 THEN ppc' = "send" /\ skip' = skip
                 ELSE IF PageEndsLoop(objects, links)
                        THEN ppc' = "markClosed" /\ skip' = skip
                        ELSE ppc' = "loop" /\ skip' = 0
  /\ UNCHANGED <<objectVars, uploadVars, call, server, limit, chClosed, doneClosed, closed, consumerFields,
                 objects, perr, links, cpc, lastRet, history>>

\* trySendToChannel, case <-it.done: a Close is blocked in `it.done <- true`.
\* The receive completes the rendezvous, Close returns, iterate breaks out.
\* When the channel has room too, select takes either case.
SendStop ==
  /\ Running /\ ppc = "send"
  /\ cpc = "closeSend"
  /\ cpc' = "idle"
  /\ afterCancel' = "raised"
  /\ ppc' = "markClosed"
  /\ UNCHANGED <<objectVars, uploadVars, call, server, limit, ch, chClosed, doneClosed, closed,
                 consumerFields, producerLocals, panic, lastRet, yielded,
                 fetched, base, resumes, closeCalls>>

\* trySendToChannel, default: the channel is full and nobody cancels;
\* sendToChannel sleeps 10 ms before it tries again.
SendRetry ==
  /\ Running /\ ppc = "send"
  /\ ~HasRoom(ch)
  /\ cpc # "closeSend"
  /\ ppc' = "sleep"
  /\ UNCHANGED <<objectVars, uploadVars, call, server, limit, ch, chClosed, doneClosed, closed,
                 consumerFields, producerLocals, cpc, panic, lastRet, history>>

\* time.Sleep returns.
Wake ==
  /\ Running /\ ppc = "sleep"
  /\ ppc' = "send"
  /\ UNCHANGED <<objectVars, uploadVars, call, server, limit, ch, chClosed, doneClosed, closed,
                 consumerFields, producerLocals, cpc, panic, lastRet, history>>

\* it.closed = true
MarkClosed ==
  /\ Running /\ ppc = "markClosed"
  /\ closed' = TRUE
  /\ ppc' = "closeCh"
  /\ UNCHANGED <<objectVars, uploadVars, call, server, limit, ch, chClosed, doneClosed, consumerFields,
                 producerLocals, cpc, panic, lastRet, history>>

\* close(it.ch)
CloseCh ==
  /\ Running /\ ppc = "closeCh"
  /\ chClosed' = TRUE
  /\ ppc' = "closeDone"
  /\ UNCHANGED <<objectVars, uploadVars, call, server, limit, ch, doneClosed, closed, consumerFields,
                 producerLocals, cpc, panic, lastRet, history>>

\* close(it.done): a Close blocked in `it.done <- true` panics with
\* "send on closed channel".
CloseDone ==
  /\ Running /\ ppc = "closeDone"
  /\ doneClosed' = TRUE
  /\ ppc' = "done"
  /\ panic' = IF cpc = "closeSend" THEN "send on closed channel" ELSE panic
  /\ UNCHANGED <<objectVars, uploadVars, call, server, limit, ch, chClosed, closed, consumerFields,
                 producerLocals, cpc, lastRet, history>>

Producer ==
  \/ LoopTest \/ FetchOk \/ FetchErr \/ SendOk \/ SendStop \/ SendRetry
  \/ Wake \/ MarkClosed \/ CloseCh \/ CloseDone

\* ---------------------------------------------------------------- consumer
\* Faulty variant of LimitReached: it.count > it.limit
LimitReached_Past(lim, cnt) == lim > 0 /\ cnt > lim

\* if it.limit > 0 && it.count == it.limit { return false }
LimitReached(lim, cnt) == lim > 0 /\ cnt = lim

\* A completed Next call moves the history past a delivered cancellation.
Advanced(a) == IF a = "raised" THEN "advanced" ELSE a

\* Faulty variant of MustSignal: Close without the it.closed test.
MustSignal_Always(c) == TRUE

\* Close: if !it.closed { it.closed = true; it.done <- true }
MustSignal(c) == ~c

\* Iterator.Next up to the receive: returns false at the limit, otherwise
\* blocks in item, ok := <-it.ch.
NextCall ==
  /\ Running /\ cpc = "idle"
  /\ IF LimitReached(limit, count)
       THEN /\ lastRet' = "false"
            /\ afterCancel' = Advanced(afterCancel)
            /\ cpc' = cpc
       ELSE /\ cpc' = "recv"
            /\ UNCHANGED <<lastRet, afterCancel>>
  /\ UNCHANGED <<objectVars, uploadVars, call, server, limit, ch, chClosed, doneClosed, closed,
                 consumerFields, producerLocals, ppc, panic, yielded, fetched,
                 base, resumes, closeCalls>>

\* Iterator.Next from the receive on: a buffered value is taken first, a
\* closed and drained channel gives ok = false.
NextRecv ==
  /\ Running /\ cpc = "recv"
  /\ ch # <<>> \/ chClosed
  /\ cpc' = "idle"
  /\ afterCancel' = Advanced(afterCancel)
  /\ IF ch # <<>>
       THEN /\ ch' = Tail(ch)
            /\ IF Head(ch).error = NoErr
                 THEN /\ next' = Head(ch).object
                      /\ cursor' = encode(Head(ch).cursor)
                      /\ count' = count + 1
                      /\ err' = err
                      /\ lastRet' = "true"
                      /\ yielded' = Append(yielded, Head(ch).object)
                 ELSE /\ next' = Nil
                      /\ err' = Head(ch).error
                      /\ lastRet' = "false"
                      /\ UNCHANGED <<cursor, count, yielded>>
       ELSE /\ lastRet' = "false"
            /\ UNCHANGED <<ch, next, err, count, cursor, yielded>>
  /\ UNCHANGED <<objectVars, uploadVars, call, server, limit, chClosed, doneClosed, closed, producerLocals,
                 ppc, panic, fetched, base, resumes, closeCalls>>

\* Iterator.Close.  The send on the unbuffered it.done blocks until iterate
\* receives it in trySendToChannel (SendStop); on a closed it.done it panics.
\* it.closed is read and written here and written by iterate without
\* synchronisation.  Both writes store true and iterate never reads the
\* field, so the outcomes of the race are those of the two orders of this
\* test-and-set and MarkClosed: Close sees false when it runs first (and
\* then waits on it.done while iterate goes on to close it) and true when
\* it runs second; close(it.ch) orders every later read after the write.
Close ==
  /\ Running /\ cpc = "idle"
  /\ closeCalls < MaxCloses
  /\ closeCalls' = closeCalls + 1
  /\ IF MustSignal(closed)
       THEN /\ closed' = TRUE
            /\ IF doneClosed
                 THEN cpc' = cpc /\ panic' = "send on closed channel"
                 ELSE cpc' = "closeSend" /\ panic' = panic
       ELSE UNCHANGED <<closed, cpc, panic>>
  /\ UNCHANGED <<objectVars, uploadVars, call, server, limit, ch, chClosed, doneClosed, consumerFields,
                 producerLocals, ppc, lastRet, yielded, fetched, base,
                 resumes, afterCancel>>

\* The owner keeps it.Cursor() of the object it just advanced to, drops the
\* iterator and starts a new one with options.Cursor set to it.
Resume ==
  /\ Running /\ cpc = "idle"
  /\ lastRet = "true"
  /\ resumes < MaxResumes
  /\ numItems <= MaxItems
  /\ resumes' = resumes + 1
  /\ base' = next
  /\ ClientIterator(CollectionURL, [options EXCEPT !.Cursor = cursor])
  /\ UNCHANGED <<objectVars, uploadVars, server, panic>>

\* The owner drops the iterator and starts a new one from a string that is
\* not a cursor (a truncated or corrupted token).
ResumeCorrupt ==
  /\ Running /\ cpc = "idle"
  /\ resumes < MaxResumes
  /\ numItems <= MaxItems
  /\ resumes' = resumes + 1
  /\ \E s \in BadCursors :
       ClientIterator(CollectionURL, [options EXCEPT !.Cursor = s])
  /\ UNCHANGED <<objectVars, uploadVars, server, panic, base>>

Consumer == NextCall \/ NextRecv \/ Close \/ Resume \/ ResumeCorrupt

Next == Producer \/ Consumer

Spec == Init /\ [][Next]_vars

\* Fair scheduling: the Go scheduler keeps running the producer goroutine
\* (requests return, time.Sleep returns, a ready select case is taken) and a
\* receive on a channel that holds a value or is closed completes.
FairSpec == Spec /\ WF_vars(Producer) /\ WF_vars(NextRecv)

\* ------------------------------------------------- starting an iterator
\* A second specification: Client.Iterator called once with every
\* combination of options, on a collection of MaxItems pages of one object.
Filters == {"", "tag:a"}

\* The cursors a caller can hold: none, the cursors of objects, and strings
\* that are not cursors.
Cursors ==
  {EmptyString}
    \cup {encode([Link |-> l, Offset |-> k]) :
            l \in 1..MaxItems, k \in 0..MaxPageSize}
    \cup BadCursors

\* The caller is about to call Client.Iterator(CollectionURL, o).
BeforeCall(o) ==
  /\ NoObject
  /\ options = o /\ newErr = NoErr
  /\ numItems = MaxItems /\ pageSize = 1 /\ limit = 0
  /\ ch = <<>> /\ chClosed = FALSE /\ doneClosed = FALSE /\ closed = FALSE
  /\ next = Nil /\ err = NoErr /\ count = 0 /\ cursor = EmptyString
  /\ links = [Self |-> NoLink, Next |-> NoLink] /\ skip = 0
  /\ ppc = "none" /\ sent = 0 /\ objects = <<>> /\ idx = 0 /\ perr = NoErr
  /\ cpc = "calling" /\ panic = "" /\ lastRet = "none"
  /\ yielded = <<>> /\ fetched = <<>> /\ base = 0 /\ resumes = 0
  /\ closeCalls = 0 /\ afterCancel = "no"
  /\ NoUpload

StartInit ==
  \E c \in Cursors, b \in 0..MaxBatch, f \in Filters, l \in 0..MaxLimit :
    BeforeCall([Limit |-> l, BatchSize |-> b, Cursor |-> c, Filter |-> f])

IteratorCall ==
  /\ Running /\ cpc = "calling"
  /\ ClientIterator(CollectionURL, options)
  /\ UNCHANGED <<objectVars, uploadVars, server, panic, base, resumes>>

StartNext == IteratorCall

StartSpec == StartInit /\ [][StartNext]_vars

\* ------------------------------------------------------ using an object
\* A third specification: one Object, made by NewObject or NewObjectWithID
\* or decoded from a response, and calls of its methods in any order.  No
\* iterator exists.
iteratorVars ==
  <<call, server, limit, ch, chClosed, doneClosed, closed, consumerFields,
    producerLocals, ppc, cpc, lastRet, history>>

Dormant ==
  /\ options = LimitOnly(0) /\ newErr = NoErr
  /\ numItems = 0 /\ pageSize = 1 /\ limit = 0
  /\ ch = <<>> /\ chClosed = FALSE /\ doneClosed = FALSE /\ closed = FALSE
  /\ next = Nil /\ err = NoErr /\ count = 0 /\ cursor = EmptyString
  /\ links = [Self |-> NoLink, Next |-> NoLink] /\ skip = 0
  /\ ppc = "none" /\ sent = 0 /\ objects = <<>> /\ idx = 0 /\ perr = NoErr
  /\ cpc = "noIterator" /\ panic = "" /\ lastRet = "none"
  /\ yielded = <<>> /\ fetched = <<>> /\ base = 0 /\ resumes = 0
  /\ closeCalls = 0 /\ afterCancel = "no"

ObjInit ==
  /\ Dormant /\ NoUpload
  /\ ret = NoRet /\ log = <<>>
  /\ \/ obj = NewObject("file")
     \/ obj = NewObjectWithID("file", "id1")
     \/ \E p \in Payloads : obj = UnmarshalJSON(NewObject(""), p)

Call(op, attr, kind, v, e) ==
  [op |-> op, attr |-> attr, kind |-> kind, val |-> v, err |-> e,
   body |-> NoBody]
Logged(op, attr, kind, v) ==
  [op |-> op, attr |-> attr, kind |-> kind, val |-> v]

\* SetInt64, SetFloat64, SetString, SetBool, SetTime: each is Set with the
\* value Stored.  The write to a nil map ends the program.
SetCall ==
  /\ Running /\ Len(log) < MaxOps
  /\ \E in \in SetInputs :
       /\ obj' = Set(obj, in[1], Stored(in[2], in[3]))
       /\ ret' = Call("set", in[1], in[2], in[3],
                      IF SetPanics(obj) THEN "panic" ELSE NoErr)
       /\ log' = Append(log, Logged("set", in[1], in[2], in[3]))
  /\ panic' = IF SetPanics(obj) THEN "assignment to entry in nil map"
                                ELSE panic
  /\ UNCHANGED <<iteratorVars, uploadVars>>

\* GetInt64, GetFloat64, GetString, GetBool, GetTime.
GetCall ==
  /\ Running
  /\ \E attr \in Names, k \in Kinds :
       ret' = Call("get", attr, k,
                   Getter(k, obj, attr).val, Getter(k, obj, attr).err)
  /\ UNCHANGED <<obj, log, panic, iteratorVars, uploadVars>>

\* Faulty variant of MustGetCall: the error is dropped.
MustGetCall_NoPanic ==
  /\ Running
  /\ \E attr \in Names, k \in Kinds :
       ret' = Call("mustget", attr, k,
                   Getter(k, obj, attr).val, Getter(k, obj, attr).err)
  /\ UNCHANGED <<obj, log, panic, iteratorVars, uploadVars>>

\* MustGetInt64, ...: the accessor, and panic(err) when it fails.
MustGetCall ==
  /\ Running
  /\ \E attr \in Names, k \in Kinds :
       /\ ret' = Call("mustget", attr, k,
                      Getter(k, obj, attr).val, Getter(k, obj, attr).err)
       /\ panic' = IF Getter(k, obj, attr).err # NoErr
                     THEN Getter(k, obj, attr).err ELSE panic
  /\ UNCHANGED <<obj, log, iteratorVars, uploadVars>>

\* json.Unmarshal(data, obj), as GetObject, CreateObject and PatchObject do
\* with the data of the response.
DecodeCall ==
  /\ Running /\ Len(log) < MaxOps
  /\ \E p \in Payloads : obj' = UnmarshalJSON(obj, p)
  /\ ret' = Call("decode", "", "", 0, NoErr)
  /\ log' = Append(log, Logged("decode", "", "", 0))
  /\ UNCHANGED <<panic, iteratorVars, uploadVars>>

\* json.Marshal(modifiedObject(*obj)): the document of an update.
EncodeCall ==
  /\ Running
  /\ ret' = [Call("encode", "", "", 0, NoErr)
               EXCEPT !.body = modifiedObject_MarshalJSON(obj)]
  /\ UNCHANGED <<obj, log, panic, iteratorVars, uploadVars>>

ObjNext == SetCall \/ GetCall \/ MustGetCall \/ DecodeCall \/ EncodeCall

ObjSpec == ObjInit /\ [][ObjNext]_vars

\* ------------------------------------------------------ reading an object
\* AccessSpec: an Object decoded from a document, and every
\* accessor called on it.

\* The documents: the one of the tests, with nested attributes; integers of
\* 2^53 + 1 and 2^63; a null attribute; no attributes at all; context
\* attributes of each JSON type.
Nested ==
  [data |-> JSON("number", 1),
   complex |-> JSON("object", [data |-> JSON("bool", 1)])]
Listed ==
  <<JSON("object", [data |-> JSON("number", 1)]),
    JSON("object", [data |-> JSON("number", 2)])>>
Document(attrs, ctx) ==
  [id |-> "id1", type |-> "file", attributes |-> attrs,
   context_attributes |-> ctx, relationships |-> <<>>, links |-> NoLink]
Documents ==
  <<Document(Fields([a |-> JSON("number", 1), b |-> JSON("string", 1),
                     super |-> JSON("object", Nested),
                     list |-> JSON("array", Listed)]),
             Fields([ctx |-> JSON("number", 1)])),
    Document(Fields([a |-> JSON("number", Big + 1), b |-> JSON("bool", 1)]),
             Fields([ctx |-> JSON("string", 1)])),
    Document(Fields([a |-> JSON("number", Int64High * Big),
                     b |-> JSON("null", 0)]),
             Fields([ctx |-> JSON("bool", 1)])),
    Document(Fields([a |-> JSON("string", 1)]),
             Fields([ctx |-> JSON("number", Big + 1)])),
    Document(Absent, Absent)>>

\* The names asked of the context attributes, and the paths asked of Get:
\* the text handed to Get, and the segments the text is made of.
ContextNames == {"ctx", "a"}
Path(text, segments) == [text |-> text, segments |-> segments]
Paths ==
  <<Path("a", <<"a">>), Path("super", <<"super">>),
    Path("super.data", <<"super", "data">>),
    Path("super.complex.data", <<"super", "complex", "data">>),
    Path("list.[0].data", <<"list", "[0]", "data">>),
    Path("list.[1].data", <<"list", "[1]", "data">>),
    Path("super.missing", <<"super", "missing">>),
    Path("missing.data", <<"missing", "data">>)>>

AccessInit ==
  /\ Dormant /\ NoUpload
  /\ ret = NoRet /\ log = <<>>
  /\ \/ obj = NewObject("file")
     \/ \E i \in DOMAIN Documents :
          obj = UnmarshalJSON(NewObject(""), Documents[i])

\* GetContextInt64, GetContextFloat64, GetContextString, GetContextBool.
GetContextCall ==
  /\ Running
  /\ \E attr \in ContextNames, k \in Kinds \ {"time"} :
       ret' = Call("getcontext", attr, k, ContextGetter(k, obj, attr).val,
                   ContextGetter(k, obj, attr).err)
  /\ UNCHANGED <<obj, log, panic, iteratorVars, uploadVars>>

\* Get, called with the text of a path.
GetPathCall ==
  /\ Running
  /\ \E i \in DOMAIN Paths :
       ret' = [op |-> "getpath", attr |-> Paths[i].text, kind |-> "",
               val |-> 0, err |-> Get(obj, Paths[i].text).err,
               body |-> NoBody, value |-> Get(obj, Paths[i].text).value,
               path |-> Paths[i].segments]
  /\ UNCHANGED <<obj, log, panic, iteratorVars, uploadVars>>

AccessNext == GetCall \/ MustGetCall \/ GetContextCall \/ GetPathCall

AccessSpec == AccessInit /\ [][AccessNext]_vars

\* ------------------------------------------------ decoding relationships
\* RelSpec: documents with one or two relationships, whose
\* data has every shape, decoded into an Object.

\* An object of a relationship, and the shapes of the data: an object, an
\* object without id and type, null, arrays of none, one and two objects,
\* a number, and an array holding a number.
Related(id, type) ==
  [id |-> id, type |-> type, attributes |-> Absent,
   context_attributes |-> Absent, relationships |-> <<>>, links |-> NoLink]
Shapes ==
  <<JSON("object", Related("u1", "url")),
    JSON("object", Related("", "")),
    JSON("null", 0),
    JSON("array", <<>>),
    JSON("array", <<JSON("object", Related("u1", "url"))>>),
    JSON("array", <<JSON("object", Related("u1", "url")),
                    JSON("object", Related("u2", "url"))>>),
    JSON("array", <<JSON("object", Related("u2", "url")),
                    JSON("object", Related("u1", "url"))>>),
    JSON("number", 1),
    JSON("array", <<JSON("object", Related("u1", "url")),
                    JSON("number", 1)>>)>>

\* The document with relationship r1 of shape i and, unless j is 0, r2 of
\* shape j.
WithRelationships(i, j) ==
  [Related("id1", "file") EXCEPT !.relationships =
     IF j = 0 THEN [n \in {"r1"} |-> Shapes[i]]
              ELSE [n \in {"r1", "r2"} |->
                      IF n = "r1" THEN Shapes[i] ELSE Shapes[j]]]

RelInit ==
  /\ Dormant /\ NoUpload
  /\ obj = NewObject("") /\ ret = NoRet /\ log = <<>>

\* json.Unmarshal(data, obj) of such a document, the map ranged over in
\* either order: the error is returned, the object is left as the loop left
\* it.
UnmarshalCall ==
  /\ Running
  /\ \E i \in DOMAIN Shapes, j \in 0..Len(Shapes) :
       \E order \in Orders(DOMAIN WithRelationships(i, j).relationships) :
         /\ obj' = Unmarshal(obj, WithRelationships(i, j), order).obj
         /\ ret' = [op |-> "unmarshal", attr |-> "", kind |-> "", val |-> 0,
                    err |-> Unmarshal(obj, WithRelationships(i, j), order).err,
                    body |-> NoBody,
                    doc |-> WithRelationships(i, j).relationships]
  /\ UNCHANGED <<log, panic, iteratorVars, uploadVars>>

RelNext == UnmarshalCall

RelSpec == RelInit /\ [][RelNext]_vars

\* ------------------------------------------------- responses of the API
\* ClientSpec: Client.GetData and Client.GetObject on every
\* kind of HTTP response.

\* An error value: nil, an error of the transport or of a decoder, or the
\* Error of an envelope with its code and message.
Err(kind, code, message) == [kind |-> kind, Code |-> code, Message |-> message]
NilErr == Err("nil", "", "")

\* The body of a response: the envelope with its data (none, or a payload)
\* and its error, or a text that is not JSON at all.
Envelope(data, code, message) ==
  [valid |-> TRUE, data |-> data, code |-> code, message |-> message]
Bodies ==
  {Envelope(d, e[1], e[2]) :
     d \in {<<>>} \cup {<<p>> : p \in Payloads},
     e \in {<<"", "">>, <<"NotFoundError", "not found">>, <<"", "odd">>}}
  \cup {[Envelope(<<>>, "", "") EXCEPT !.valid = FALSE]}

\* The HTTP responses: the status, whether there is content, its type,
\* whether it is gzipped, and the body.
Responses ==
  [status : {"200", "404"}, empty : BOOLEAN,
   contentType : {"application/json", "text/html"}, gzipped : BOOLEAN,
   body : Bodies]

\* Faulty variant of parseResponse: the error of the envelope is not
\* looked at.
parseResponse_NoCheck(resp) ==
  IF resp.empty THEN [isNil |-> FALSE, Data |-> <<>>, err |-> NilErr]
  ELSE IF resp.contentType # "application/json"
    THEN [isNil |-> TRUE, Data |-> <<>>, err |-> Err("format", "", "")]
  ELSE IF ~resp.gzipped
    THEN [isNil |-> TRUE, Data |-> <<>>, err |-> Err("gzip", "", "")]
  ELSE IF ~resp.body.valid
    THEN [isNil |-> TRUE, Data |-> <<>>, err |-> Err("json", "", "")]
  ELSE [isNil |-> FALSE, Data |-> resp.body.data, err |-> NilErr]

\* Client.parseResponse: the Response (or nil) and the error.
parseResponse(resp) ==
  IF resp.empty THEN [isNil |-> FALSE, Data |-> <<>>, err |-> NilErr]
  ELSE IF resp.contentType # "application/json"
    THEN [isNil |-> TRUE, Data |-> <<>>, err |-> Err("format", "", "")]
  ELSE IF ~resp.gzipped
    THEN [isNil |-> TRUE, Data |-> <<>>, err |-> Err("gzip", "", "")]
  ELSE IF ~resp.body.valid
    THEN [isNil |-> TRUE, Data |-> <<>>, err |-> Err("json", "", "")]
  ELSE IF resp.body.code # ""
    THEN [isNil |-> FALSE, Data |-> resp.body.data,
          err |-> Err("api", resp.body.code, resp.body.message)]
  ELSE [isNil |-> FALSE, Data |-> resp.body.data, err |-> NilErr]

\* Client.GetData with an *Object as target: Get, which is parseResponse
\* of the response, then json.Unmarshal of the data, which fails on no
\* data.  The result is the Response (or nil), the target and the error.
GetData(resp, target) ==
  IF parseResponse(resp).err # NilErr
    THEN [isNil |-> TRUE, target |-> target, err |-> parseResponse(resp).err]
  ELSE IF parseResponse(resp).Data = <<>>
    THEN [isNil |-> FALSE, target |-> target, err |-> Err("json", "", "")]
  ELSE [isNil |-> FALSE,
        target |-> UnmarshalJSON(target, parseResponse(resp).Data[1]),
        err |-> NilErr]

ClientInit ==
  /\ Dormant /\ NoUpload
  /\ obj = NewObject("") /\ ret = NoRet /\ log = <<>>

\* GetData(url, obj), as getMoreObjects and GetObject call it; sendRequest
\* may fail before there is a response.
GetDataCall ==
  /\ Running
  /\ \/ /\ ret' = [op |-> "GetData", err |-> Err("transport", "", ""),
                    isNil |-> TRUE, sent |-> FALSE]
        /\ obj' = obj
     \/ \E resp \in Responses :
          /\ ret' = [op |-> "GetData", err |-> GetData(resp, obj).err,
                     isNil |-> GetData(resp, obj).isNil, sent |-> TRUE,
                     response |-> resp]
          /\ obj' = GetData(resp, obj).target
  /\ UNCHANGED <<log, panic, iteratorVars, uploadVars>>

\* GetObject: GetData into a new Object, which is returned when there is
\* no error.
GetObjectCall ==
  /\ Running
  /\ \E resp \in Responses :
       /\ ret' = [op |-> "GetObject",
                  err |-> GetData(resp, NewObject("")).err,
                  isNil |-> GetData(resp, NewObject("")).err # NilErr,
                  sent |-> TRUE, response |-> resp]
       /\ obj' = IF GetData(resp, NewObject("")).err # NilErr THEN obj
                 ELSE GetData(resp, NewObject("")).target
  /\ UNCHANGED <<log, panic, iteratorVars, uploadVars>>

ClientNext == GetDataCall \/ GetObjectCall

ClientSpec == ClientInit /\ [][ClientNext]_vars

\* ------------------------------------------------ building a collection
\* CollSpec: a CollectionBuilder.  obj is the builder, log
\* the texts added to it so far, ret the last PostCollection.

\* A string is the sequence of its characters.
Space == <<" ">>
Texts == {<<>>, <<"a">>, <<"b">>, <<"c", " ", "d">>}
CollectionNames == {"n1", "n2"}

\* NewCollectionBuilder
NewCollectionBuilder == [client |-> "client", rawText |-> <<>>]

\* CollectionBuilder.AddRawText
AddRawText(c, text) ==
  IF c.rawText = <<>> THEN [c EXCEPT !.rawText = text]
                      ELSE [c EXCEPT !.rawText = @ \o Space \o text]

CollInit ==
  /\ Dormant /\ NoUpload
  /\ obj = NewCollectionBuilder /\ ret = NoRet /\ log = <<>>

AddRawTextCall ==
  /\ Running /\ Len(log) < MaxTexts
  /\ \E text \in Texts :
       /\ obj' = AddRawText(obj, text)
       /\ log' = Append(log, text)
  /\ UNCHANGED <<ret, panic, iteratorVars, uploadVars>>

\* CollectionBuilder.PostCollection: a new object of type collection with
\* the raw text as meta and the name as attribute is posted; the object and
\* the error of the post are returned.
PostCollection ==
  /\ Running
  /\ \E name \in CollectionNames, e \in Errors \cup {NoErr} :
       ret' = [op |-> "PostCollection", err |-> e, type |-> "collection",
               raw |-> obj.rawText,
               attributes |->
                 Set(NewObject("collection"), "name",
                     Val("string", name)).Attributes.kv,
               name |-> name, added |-> log]
  /\ UNCHANGED <<obj, log, panic, iteratorVars, uploadVars>>

CollNext == AddRawTextCall \/ PostCollection

CollSpec == CollInit /\ [][CollNext]_vars

\* ---------------------------------------------------- updating an object
\* UpdateSpec: one Object, setters, and Client.PatchObject.

\* Client.PatchObject: req.Data = obj, so the body of the request is what
\* json.Marshal makes of the *Object, its MarshalJSON.  When Patch fails the
\* error is returned; otherwise the data of the response is decoded into the
\* same object.
PatchObject ==
  /\ Running /\ Len(log) < MaxOps
  /\ \/ /\ \E e \in Errors :
             ret' = [Call("patch", "", "", 0, e)
                       EXCEPT !.body = Object_MarshalJSON(obj)]
        /\ UNCHANGED <<obj, log>>
     \/ /\ \E p \in Payloads : obj' = UnmarshalJSON(obj, p)
        /\ ret' = [Call("patch", "", "", 0, NoErr)
                     EXCEPT !.body = Object_MarshalJSON(obj)]
        /\ log' = Append(log, Logged("decode", "", "", 0))
  /\ UNCHANGED <<panic, iteratorVars, uploadVars>>

UpdateNext == SetCall \/ PatchObject

UpdateSpec == ObjInit /\ [][UpdateNext]_vars

\* ------------------------------------------------------ uploading a file
\* ScanSpec: one call of FileScanner.scanWithParameters, from the point
\* where the size of the file is known and the goroutine that writes the
\* multipart body has been started.  No iterator and no Object exist.
\*
\* The pipe is an io.Pipe: a write on it returns when a reader has taken the
\* data or when the pipe is closed.  The only reader is the HTTP transport
\* inside Client.sendRequest, which reads the request body until end of file.
\* The body is handed over as an io.Reader (the progressReader), so closing
\* the request body does not close the pipe; scanWithParameters closes
\* neither end itself.  The progress channel is nil or is always received
\* from.

\* The writes of the goroutine on the pipe, in order: the part header of
\* CreateFormFile, the chunks io.Copy moves from r, one WriteField for each
\* parameter, and the closing boundary of the deferred multipartWriter.Close.
Writes(chunks, fields) ==
  <<"CreateFormFile">> \o [i \in 1..chunks |-> "Copy"]
    \o [i \in 1..fields |-> "WriteField"] \o <<"Close">>

ScanInit ==
  /\ Dormant /\ NoObject
  /\ fileSize \in {"small", "medium", "large"}
  /\ \E chunks \in 0..MaxChunks, fields \in 0..MaxParams :
       todo = Writes(chunks, fields)
  /\ wpc = "run" /\ pipe = "open" /\ spc = "chooseURL" /\ scanErr = NoErr

\* goroutine: a write on the pipe, taken by the transport reading the body.
PipeWrite ==
  /\ wpc = "run" /\ todo # <<>> /\ pipe = "open"
  /\ spc = "send"
  /\ todo' = Tail(todo)
  /\ UNCHANGED <<fileSize, wpc, pipe, spc, scanErr>>
  /\ UNCHANGED <<objectVars, panic, iteratorVars>>

\* goroutine: io.Copy fails reading r: pipeWriter.CloseWithError(err); the
\* deferred multipartWriter.Close then writes on a closed pipe and returns.
CopyFails ==
  /\ wpc = "run" /\ todo # <<>> /\ Head(todo) = "Copy"
  /\ pipe' = "error" /\ wpc' = "done" /\ todo' = <<>>
  /\ UNCHANGED <<fileSize, spc, scanErr>>
  /\ UNCHANGED <<objectVars, panic, iteratorVars>>

\* goroutine: everything was written; the deferred pipeWriter.Close, return.
WriterExit ==
  /\ wpc = "run" /\ todo = <<>>
  /\ pipe' = "eof" /\ wpc' = "done"
  /\ UNCHANGED <<fileSize, todo, spc, scanErr>>
  /\ UNCHANGED <<objectVars, panic, iteratorVars>>

\* scanWithParameters: the choice of the upload URL by file size.  A file
\* larger than maxFileSize is refused; one larger than maxPayloadSize needs
\* an upload URL, which GetData or url.Parse may fail to give.
ChooseURL ==
  /\ spc = "chooseURL"
  /\ \/ /\ fileSize = "large"
        /\ scanErr' = "FileTooLarge" /\ spc' = "returned"
     \/ /\ fileSize = "medium"
        /\ \E e \in Errors \cup {"ParseError", NoErr} :
             /\ scanErr' = e
             /\ spc' = IF e = NoErr THEN "send" ELSE "returned"
     \/ /\ fileSize = "small"
        /\ scanErr' = NoErr /\ spc' = "send"
  /\ UNCHANGED <<fileSize, todo, wpc, pipe>>
  /\ UNCHANGED <<objectVars, panic, iteratorVars>>

\* scanWithParameters: sendRequest returns an error, at any point of the
\* exchange; the transport reads the body no further.
SendFails ==
  /\ spc = "send"
  /\ scanErr' = "TransportError" /\ spc' = "returned"
  /\ UNCHANGED <<fileSize, todo, wpc, pipe>>
  /\ UNCHANGED <<objectVars, panic, iteratorVars>>

\* scanWithParameters: the transport read the body to its end.  An error of
\* the pipe is the error of sendRequest; otherwise the response is parsed
\* and decoded, and the analysis or the error is returned.
SendDone ==
  /\ spc = "send" /\ pipe # "open"
  /\ \E e \in Errors \cup {NoErr} :
       scanErr' = IF pipe = "error" THEN "TransportError" ELSE e
  /\ spc' = "returned"
  /\ UNCHANGED <<fileSize, todo, wpc, pipe>>
  /\ UNCHANGED <<objectVars, panic, iteratorVars>>

ScanNext ==
  \/ PipeWrite \/ CopyFails \/ WriterExit
  \/ ChooseURL \/ SendFails \/ SendDone

\* Both the goroutine and the caller keep running while they can take a
\* step; failures of the file and of the network are not forced.
ScanSpec ==
  /\ ScanInit /\ [][ScanNext]_vars
  /\ WF_vars(PipeWrite \/ WriterExit)
  /\ WF_vars(ChooseURL \/ SendDone)

\* ================================================================== claims
Stopping == ppc \in {"markClosed", "closeCh", "closeDone", "done"}

\* A fresh, unlimited iterator that saw no failed fetch and no Close.
FreshRun == resumes = 0 /\ limit = 0 /\ closeCalls = 0 /\ perr = NoErr

\* C1: a fresh iterator without limit, without failed fetch and without
\* Close yields the objects 1, 2, ... of the collection in server order, each
\* once; it requests the pages in the order first link, next, next, ...;
\* Get() is the object just yielded; and when Next returns false every object
\* of the collection was yielded and Error() is nil.
C1_FreshIterationInOrder ==
  FreshRun =>
    /\ \A i \in 1..Len(yielded) : yielded[i] = i
    /\ \A i \in 1..Len(fetched) : fetched[i] = CollectionURL + i - 1
    /\ lastRet = "true" => next = yielded[Len(yielded)]
    /\ lastRet = "false" => Len(yielded) = numItems /\ err = NoErr

C1_Witness ==
  /\ FreshRun /\ lastRet = "false" /\ cpc = "idle"
  /\ numItems = MaxItems /\ Len(yielded) = numItems /\ Len(fetched) >= 2

C3_NextAfterCancelIsFalse ==
  [][(afterCancel = "raised" /\ afterCancel' = "advanced")
       => lastRet' = "false"]_vars

\* C4: Close never ends the program: the send on it.done never meets a
\* closed channel, whatever the producer is doing.
C4_CloseNeverAborts == panic # "send on closed channel"

\* C5: a Close call on an iterator whose closed flag is already set (set by
\* an earlier Close, or by the producer when it stopped) changes no field of
\* the iterator, sends nothing on it.done and returns.
C5_CloseIdempotent ==
  [][(closeCalls' = closeCalls + 1 /\ closed)
       => /\ cpc' = "idle" /\ panic' = ""
          /\ UNCHANGED <<ch, chClosed, doneClosed, closed, consumerFields,
                         producerLocals, ppc, lastRet, afterCancel>>]_vars

C5_Witness ==
  /\ closeCalls = 2 /\ afterCancel # "no" /\ ppc = "done"
  /\ cpc = "idle" /\ panic = ""

\* C6: with a limit L > 0, count and the number of true Next calls never
\* exceed L, and once count = L the consumer is never in the receive and
\* takes nothing more out of the channel.
C6_LimitBoundsNext ==
  /\ [](limit > 0 => /\ count <= limit
                     /\ Len(yielded) <= limit
                     /\ count = limit => cpc # "recv")
  /\ [][(limit > 0 /\ count = limit /\ resumes' = resumes)
          => /\ count' = count /\ next' = next /\ cursor' = cursor
             /\ Len(ch') >= Len(ch)
             /\ lastRet' \in {lastRet, "false"}
             /\ cpc' # "recv"]_vars

C6_Witness ==
  /\ limit = 1 /\ count = 1 /\ Len(ch) >= 1
  /\ lastRet = "false" /\ cpc = "idle"

\* C7: the producer is in a page fetch only while limit = 0 or sent < limit;
\* with a limit L > 0 it requests at most L pages (one page with limit = 1).
C7_FetchOnlyBelowLimit ==
  /\ ppc = "fetch" => (limit = 0 \/ sent < limit)
  /\ limit > 0 => Len(fetched) <= limit

C7_Witness ==
  /\ limit = 1 /\ pageSize = 1 /\ numItems >= 2
  /\ ppc = "done" /\ sent = 1 /\ fetched = <<CollectionURL>>

\* C8: once a limited consumer has yielded limit objects, the producer
\* eventually closes the channel (or the program ended, or the owner dropped
\* the iterator for a resumed one).
C8_ProducerStopsAtLimit ==
  [](( limit > 0 /\ count = limit)
       => <>(chClosed \/ panic # "" \/ count < limit))

\* C9: every Next call that reached the receive eventually returns.
C9_NextEventuallyReturns == (cpc = "recv") ~> (cpc = "idle")

\* C10: after a failed fetch the producer goes on to mark the iterator
\* closed and close the channel without another fetch; the consumer that
\* sees the error has it.err equal to the fetch error, got false from Next,
\* and before that every object delivered.
C10_FetchErrorEndsIteration ==
  /\ (perr # NoErr /\ ppc \notin {"send", "sleep"}) => Stopping
  /\ err # NoErr => /\ err = perr /\ lastRet = "false"
                    /\ Len(yielded) = sent

\* The page that holds object k, and the cursor of object k as the producer
\* computes it from that page when no object of the page is dropped twice.
PageOf(k) == ((k - 1) \div pageSize) + 1
LastOnPage(k) == k = Min(PageOf(k) * pageSize, numItems)
CursorOf(k) ==
  IF LastOnPage(k)
    THEN [Link |-> PageLinks(PageOf(k)).Next, Offset |-> 0]
    ELSE [Link |-> PageOf(k), Offset |-> k - (PageOf(k) - 1) * pageSize]

\* C11: once the iterator holds an error and had yielded an object before,
\* Get() is still the last object yielded and Cursor() is its cursor.
C11_FailureKeepsCurrent ==
  (err # NoErr /\ yielded # <<>>) =>
    /\ next = yielded[Len(yielded)]
    /\ cursor = encode(CursorOf(yielded[Len(yielded)]))

\* C12: once Error() is not nil, no step of the same iterator changes it and
\* no later Next returns true (no object is yielded, count stays).
C12_ErrorIsSticky ==
  [][(err # NoErr /\ resumes' = resumes)
       => /\ err' = err /\ lastRet' = "false"
          /\ yielded' = yielded /\ count' = count]_vars

\* A Next call is under way on an iterator that holds an error, was closed
\* by the owner, and whose channel the producer has closed.
C12_Witness ==
  /\ err # NoErr /\ closeCalls >= 1 /\ cpc = "recv" /\ chClosed /\ ch = <<>>

C15_BadCursorNoIterator ==
  options.Cursor \in BadCursors =>
    /\ newErr = decodeErr(options.Cursor) /\ newErr # NoErr
    /\ cpc = "noIterator"
    /\ ppc = "none"
    /\ fetched = <<>> /\ ch = <<>> /\ yielded = <<>>

C15_Witness ==
  /\ options.Cursor = <<"notDeflate", 0, 0>>
  /\ newErr = "flate.CorruptInputError"
  /\ cpc = "noIterator"
  /\ resumes = MaxResumes

\* C16: for a call that returned an iterator, the link the producer fetches
\* first and the initial skip are: with a non-empty options.Cursor, the link
\* and the offset of the decoded cursor, whatever BatchSize and Filter are;
\* otherwise skip 0 and the collection URL, to which the limit parameter is
\* added exactly when BatchSize > 0 and the filter parameter exactly when
\* Filter is not empty.
C16_FirstLink ==
  (cpc = "idle" /\ newErr = NoErr) =>
    /\ links.Self = NoLink
    /\ options.Cursor # EmptyString =>
         /\ links.Next = decode(options.Cursor).Link
         /\ skip = decode(options.Cursor).Offset
    /\ options.Cursor = EmptyString => skip = 0
    /\ (options.Cursor = EmptyString
          /\ options.BatchSize = 0 /\ options.Filter = "") =>
         links.Next = CollectionURL
    /\ (options.Cursor = EmptyString
          /\ (options.BatchSize > 0 \/ options.Filter # "")) =>
         /\ links.Next.path = CollectionURL
         /\ Len(links.Next.query.limit) = (IF options.BatchSize > 0 THEN 1 ELSE 0)
         /\ options.BatchSize > 0 =>
              links.Next.query.limit[1] = Itoa(options.BatchSize)
         /\ Len(links.Next.query.filter) = (IF options.Filter # "" THEN 1 ELSE 0)
         /\ options.Filter # "" => links.Next.query.filter[1] = options.Filter

C16_Witness ==
  /\ cpc = "idle" /\ ppc = "loop"
  /\ options.Cursor = encode([Link |-> 2, Offset |-> 1])
  /\ options.BatchSize = MaxBatch /\ options.Filter = "tag:a"
  /\ links.Next = 2 /\ skip = 1

\* C17: the delivery buffer never holds more than its capacity of 50 items,
\* so the producer never enqueues into a full buffer; and the producer has
\* a request outstanding only when it is not delivering: every object of the
\* page fetched before was handed over (or that fetch failed), so two
\* fetches of one iterator never overlap.
C17_BoundedReadAhead ==
  /\ Len(ch) <= ChanCap
  /\ ppc = "fetch" => idx = Len(objects)
  /\ ppc \in {"send", "sleep"} => (perr # NoErr \/ idx < Len(objects))

C17_Witness == Len(ch) = ChanCap /\ ppc = "sleep" /\ idx < Len(objects)

\* The calls logged that decide what attribute n holds: a decode replaces
\* every attribute, a set writes its own.
Touches(e, n) == e.op = "decode" \/ e.attr = n
LastTouch(n) ==
  IF \E i \in 1..Len(log) : Touches(log[i], n)
    THEN CHOOSE i \in 1..Len(log) :
           /\ Touches(log[i], n)
           /\ \A j \in (i + 1)..Len(log) : ~Touches(log[j], n)
    ELSE 0

\* A time cut to whole seconds.
WholeSeconds(t) == t - (t % 2)

\* C18: when the last write to an attribute was the typed setter of kind k
\* with value v (on a new object or over a decoded value), the accessor of
\* kind k returns v (a time: v cut to whole seconds) and no error, and the
\* must accessor returns v without a panic.
C18_GetAfterSet ==
  \A n \in Names :
    (/\ ret.op \in {"get", "mustget"} /\ ret.attr = n
     /\ LastTouch(n) > 0
     /\ log[LastTouch(n)].op = "set"
     /\ log[LastTouch(n)].kind = ret.kind)
    => /\ ret.err = NoErr
       /\ panic = ""
       /\ ret.val = IF ret.kind = "time"
                      THEN WholeSeconds(log[LastTouch(n)].val)
                      ELSE log[LastTouch(n)].val

\* The calls logged are all Set calls: no decode came after the object was
\* made.
OnlySets == \A i \in 1..Len(log) : log[i].op = "set"
SetNames == {log[i].attr : i \in {j \in 1..Len(log) : log[j].op = "set"}}

\* C19: after Set calls only, the partial encoding holds the id and the type
\* of the object and an attributes mapping whose keys are the names that
\* were set (no mapping when none was), each with the JSON form of the value
\* written last; it holds no attribute that was not set, no context
\* attributes, no relationships and no links.
C19_PartialEncode ==
  (ret.op = "encode" /\ OnlySets) =>
    /\ ret.body.id = obj.ID /\ ret.body.type = obj.Type
    /\ ret.body.attributes.present = (SetNames # {})
    /\ DOMAIN ret.body.attributes.kv = SetNames
    /\ \A n \in SetNames :
         ret.body.attributes.kv[n] =
           ToJSON(Stored(log[LastTouch(n)].kind, log[LastTouch(n)].val))
    /\ ~ret.body.context_attributes.present
    /\ ret.body.relationships = {}
    /\ ret.body.links = NoLink

C19_Witness ==
  /\ ret.op = "encode" /\ Len(log) = 2
  /\ log[1] = Logged("set", "a", "int64", 1)
  /\ log[2] = Logged("set", "a", "int64", 2)
  /\ Has(obj.Attributes, "b") /\ Has(obj.ContextAttributes, "ctx")
  /\ DOMAIN obj.Relationships # {} /\ obj.Links # NoLink
  /\ ret.body.attributes = Fields([n \in {"a"} |-> JSON("number", 2)])

\* The names set since the last decode (since the object was made when
\* nothing was decoded into it).
LastDecode ==
  IF \E i \in 1..Len(log) : log[i].op = "decode"
    THEN CHOOSE i \in 1..Len(log) :
           /\ log[i].op = "decode"
           /\ \A j \in (i + 1)..Len(log) : log[j].op # "decode"
    ELSE 0
SetSinceDecode == {log[i].attr : i \in (LastDecode + 1)..Len(log)}

\* C20: modifiedAttributes holds only names set since the last decode, and
\* a partial encoding holds only those names.
C20_DirtySinceDecode ==
  /\ NamesIn(obj.modifiedAttributes) \subseteq SetSinceDecode
  /\ ret.op = "encode" => DOMAIN ret.body.attributes.kv \subseteq SetSinceDecode

\* C21: a call of a setter, on an object made locally or decoded from any
\* payload, returns no error and does not panic; afterwards the attribute
\* holds the value handed to Set and its name is the last entry of
\* modifiedAttributes.
C21_SetAlwaysSucceeds ==
  ret.op = "set" =>
    /\ ret.err = NoErr /\ panic = ""
    /\ Has(obj.Attributes, ret.attr)
    /\ obj.Attributes.kv[ret.attr] = Stored(ret.kind, ret.val)
    /\ obj.modifiedAttributes # <<>>
    /\ obj.modifiedAttributes[Len(obj.modifiedAttributes)] = ret.attr

\* The names set by the calls logged before the last decode (all of them
\* when there was none): what was set locally when the last request left.
SetBeforeDecode ==
  {log[i].attr :
     i \in {j \in 1..(IF LastDecode = 0 THEN Len(log) ELSE LastDecode - 1) :
              log[j].op = "set"}}

\* C22: the body of a PatchObject request holds no attribute that was not
\* set locally, no context attributes, no relationships and no links; it
\* holds the id and the type of the object (compared when the request
\* failed, so that the object is still the one that was sent).
C22_PatchBodyIsPartial ==
  ret.op = "patch" =>
    /\ DOMAIN ret.body.attributes.kv \subseteq SetBeforeDecode
    /\ ~ret.body.context_attributes.present
    /\ ret.body.relationships = {}
    /\ ret.body.links = NoLink
    /\ ret.err # NoErr => (ret.body.id = obj.ID /\ ret.body.type = obj.Type)

\* The meaning of a dotted path: a segment [i] indexes a sequence, any other
\* segment a mapping; an absent segment is not found.
Indexes == [i \in {"[0]", "[1]"} |-> IF i = "[0]" THEN 1 ELSE 2]
RECURSIVE Resolve(_, _)
Resolve(v, segments) ==
  IF segments = <<>> THEN [value |-> v, err |-> NoErr]
  ELSE IF Head(segments) \in DOMAIN Indexes
    THEN IF v.type = "slice" /\ Indexes[Head(segments)] \in DOMAIN v.val
           THEN Resolve(v.val[Indexes[Head(segments)]], Tail(segments))
           ELSE [value |-> NilValue, err |-> "does not exists"]
    ELSE IF v.type = "map" /\ Head(segments) \in DOMAIN v.val
           THEN Resolve(v.val[Head(segments)], Tail(segments))
           ELSE [value |-> NilValue, err |-> "does not exists"]
Scalars == {"json.Number", "string", "bool", "int64", "float64", "nil"}

\* C23: Get(path) returns what the dotted path resolves to in the nested
\* attributes, super.complex.data and list.[0].data included, and fails
\* with the not-found error when a segment is absent.
C23_GetResolvesPath ==
  ret.op = "getpath" =>
    LET r == Resolve(Val("map", obj.Attributes.kv), ret.path)
    IN  /\ ret.err = r.err
        /\ ret.value.type = r.value.type
        /\ r.value.type \in Scalars => ret.value.val = r.value.val

\* The kinds of error of an accessor, and what a Go value can be read as.
NotFound == {"does not exists"}
WrongType ==
  {"is not a number", "is not a string", "is not a bool", "value out of range"}
Coercible(v, k) ==
  IF k \in {"int64", "time"}
    THEN v.type \in {"json.Number", "int64"} /\ High(v.val) < Int64High
  ELSE IF k = "float64" THEN v.type \in {"json.Number", "int64", "float64"}
  ELSE v.type = k
Asked(r, o) == IF r.op = "get" THEN o.Attributes ELSE o.ContextAttributes

\* C24: a typed accessor of attributes or of context attributes returns a
\* NotFound error when the attribute is absent and a WrongType error when
\* it is present and cannot be read as the type asked; the call never
\* aborts and leaves the object as it was.
C24_AccessorErrors ==
  [][ret'.op \in {"get", "getcontext"} =>
       /\ obj' = obj /\ panic' = ""
       /\ ~Has(Asked(ret', obj), ret'.attr) => ret'.err \in NotFound
       /\ (/\ Has(Asked(ret', obj), ret'.attr)
           /\ ~Coercible(Asked(ret', obj).kv[ret'.attr], ret'.kind))
            => ret'.err \in WrongType]_vars
C24_Witness ==
  /\ ret.op = "getcontext" /\ ret.kind = "bool"
  /\ Has(obj.ContextAttributes, ret.attr) /\ ret.err = "is not a bool"

\* C25: a must accessor returns what the plain accessor returns and panics
\* exactly when the plain accessor returns an error; a plain accessor
\* never panics.
C25_MustPanicsOnError ==
  /\ ret.op = "mustget" =>
       /\ ret.val = Getter(ret.kind, obj, ret.attr).val
       /\ panic # "" <=> Getter(ret.kind, obj, ret.attr).err # NoErr
       /\ panic # "" => panic = Getter(ret.kind, obj, ret.attr).err
  /\ ret.op \in {"get", "getcontext"} => panic = ""
C25_Witness ==
  /\ ret.op = "mustget" /\ ret.kind = "int64" /\ panic = "is not a number"

\* The integer written in a document for an attribute, when there is one
\* and it is an int64.
WrittenInt64(d, attr) ==
  /\ d.attributes.present /\ attr \in DOMAIN d.attributes.kv
  /\ d.attributes.kv[attr].type = "number"
  /\ High(d.attributes.kv[attr].val) < Int64High

\* C27: GetInt64 of an attribute decoded from a document returns exactly
\* the integer written there, 2^53 + 1 included, for every int64.
C27_Int64Exact ==
  \A i \in DOMAIN Documents :
    (/\ ret.op = "get" /\ ret.kind = "int64"
     /\ obj = UnmarshalJSON(NewObject(""), Documents[i])
     /\ WrittenInt64(Documents[i], ret.attr))
      => /\ ret.err = NoErr
         /\ ret.val = Documents[i].attributes.kv[ret.attr].val
C27_Witness ==
  /\ ret.op = "get" /\ ret.kind = "int64" /\ ret.err = NoErr
  /\ ret.val = Big + 1
  /\ obj.Attributes.kv[ret.attr] = Val("json.Number", Big + 1)

\* The shapes a relationship may have: an object, null, an array of objects.
GoodShape(raw) ==
  \/ raw.type \in {"object", "null"}
  \/ /\ raw.type = "array"
     /\ \A k \in DOMAIN raw.val : raw.val[k].type = "object"

\* C26: decoding fails exactly when some relationship has another shape;
\* otherwise an object gives IsOneToOne with that one object, null gives
\* IsOneToOne with no object, and an array gives not IsOneToOne with its
\* objects in order.
C26_RelationshipShapes ==
  ret.op = "unmarshal" =>
    /\ ret.err # NoErr <=> \E n \in DOMAIN ret.doc : ~GoodShape(ret.doc[n])
    /\ ret.err = NoErr =>
         \A n \in DOMAIN ret.doc :
           LET raw == ret.doc[n]
               v == obj.Relationships[n]
           IN  /\ raw.type = "object" =>
                    /\ v.IsOneToOne /\ Len(v.Objects) = 1
                    /\ v.Objects[1].ID = raw.val.id
                    /\ v.Objects[1].Type = raw.val.type
               /\ raw.type = "null" => v.IsOneToOne /\ v.Objects = <<>>
               /\ raw.type = "array" =>
                    /\ ~v.IsOneToOne /\ Len(v.Objects) = Len(raw.val)
                    /\ \A k \in DOMAIN raw.val :
                         v.Objects[k].ID = raw.val[k].val.id

\* A response that carries an envelope: content of type JSON, gzipped, that
\* decodes.
CarriesEnvelope(resp) ==
  /\ ~resp.empty /\ resp.contentType = "application/json"
  /\ resp.gzipped /\ resp.body.valid

\* C28: when the envelope of a response has a non-empty error code, GetData
\* and GetObject return the error with that code and message and no
\* result, whatever the status and the data.
C28_EnvelopeErrorRaised ==
  (/\ ret.op \in {"GetData", "GetObject"} /\ ret.sent
   /\ CarriesEnvelope(ret.response) /\ ret.response.body.code # "")
    => /\ ret.err = Err("api", ret.response.body.code,
                        ret.response.body.message)
       /\ ret.isNil
C28_Witness ==
  /\ ret.op = "GetObject" /\ ret.sent /\ CarriesEnvelope(ret.response)
  /\ ret.response.status = "200" /\ ret.response.body.data # <<>>
  /\ ret.response.body.code = "NotFoundError"
  /\ ret.err.Code = "NotFoundError" /\ ret.isNil

\* Texts joined by one space between consecutive texts.
RECURSIVE JoinTexts(_)
JoinTexts(texts) ==
  IF texts = <<>> THEN <<>>
  ELSE IF Len(texts) = 1 THEN texts[1]
  ELSE texts[1] \o Space \o JoinTexts(Tail(texts))

\* C29: the raw text of the builder, and the raw text PostCollection
\* attaches, is the texts added so far, in order, joined by one space
\* between consecutive texts; PostCollection sets the name and leaves the
\* raw text of the builder as it was.
C29_RawTextJoined ==
  /\ ret.op = "PostCollection" =>
       /\ ret.raw = JoinTexts(ret.added)
       /\ ret.attributes["name"] = Val("string", ret.name)
  /\ obj.rawText = JoinTexts(log)

\* C30: while a Close has raised the signal and waits in `it.done <- true`,
\* nothing is added to the channel and the producer does not go from the
\* loop test to another fetch.
C30_NothingSentAfterCancel ==
  [][cpc = "closeSend" =>
       /\ Len(ch') <= Len(ch)
       /\ ~(ppc = "loop" /\ ppc' = "fetch")]_vars

\* C31: the cursor attached to every object in the channel is, for the last
\* object of its page, the next link of the page with offset 0 and, for any
\* other object, the self link of the page with the position of the object
\* in the whole page; the page at that link without its first offset
\* objects starts with the following object.
C31_ItemCursor ==
  \A i \in 1..Len(ch) :
    ch[i].error = NoErr =>
      LET k == ch[i].object
          c == ch[i].cursor
      IN  /\ LastOnPage(k) =>
               c = [Link |-> PageLinks(PageOf(k)).Next, Offset |-> 0]
          /\ ~LastOnPage(k) =>
               c = [Link |-> PageLinks(PageOf(k)).Self,
                    Offset |-> k - (PageOf(k) - 1) * pageSize]
          /\ c.Link # NoLink =>
               /\ SliceOK(PageData(c.Link), c.Offset)
               /\ Drop(PageData(c.Link), c.Offset) # <<>>
               /\ Head(Drop(PageData(c.Link), c.Offset)) = k + 1

\* A resumed producer, which dropped the first object of a page of three,
\* has put the second and the third object in the channel.
C31_Witness ==
  /\ resumes = 1 /\ base = 1 /\ pageSize = 3 /\ numItems = 3 /\ Len(ch) = 2
  /\ ch[1].cursor = [Link |-> CollectionURL, Offset |-> 2]
  /\ ch[2].cursor = [Link |-> NoLink, Offset |-> 0]

\* The last request of this iterator was answered with a page that is empty
\* once the skipped objects are dropped, or that has no next link.
LastPageFetched ==
  /\ fetched # <<>> /\ perr = NoErr /\ panic = ""
  /\ Len(objects) = 0 \/ links.Next = NoLink

\* C32: after such a page the producer makes no further request: it only
\* offers the objects of the page, then marks the iterator closed and
\* closes the channel.
C32_StopsAfterLastPage ==
  /\ [](LastPageFetched =>
          /\ ppc \in {"send", "sleep", "markClosed", "closeCh", "closeDone",
                      "done"}
          /\ ppc \in {"closeDone", "done"} => closed /\ chClosed)
  /\ [][(LastPageFetched /\ resumes' = resumes)
          => fetched' = fetched /\ ppc' # "fetch"]_vars

\* The second page of a collection of three objects, an empty next link,
\* was fetched; the producer has closed the channel.
C32_Witness ==
  /\ LastPageFetched /\ fetched = <<1, 2>> /\ numItems = 3 /\ pageSize = 2
  /\ ppc = "done" /\ chClosed /\ closeCalls = 0

\* C33: a call of a setter leaves the id, the type, the context attributes,
\* the relationships, the links and every attribute but the one it names as
\* they were.
C33_SettersKeepTheRest ==
  [][(Len(log') = Len(log) + 1 /\ log'[Len(log')].op = "set") =>
       /\ obj'.ID = obj.ID /\ obj'.Type = obj.Type
       /\ obj'.ContextAttributes = obj.ContextAttributes
       /\ obj'.Relationships = obj.Relationships
       /\ obj'.Links = obj.Links
       /\ DOMAIN obj'.Attributes.kv
            \subseteq DOMAIN obj.Attributes.kv \cup {ret'.attr}
       /\ \A n \in DOMAIN obj.Attributes.kv \ {ret'.attr} :
            /\ n \in DOMAIN obj'.Attributes.kv
            /\ obj'.Attributes.kv[n] = obj.Attributes.kv[n]]_vars

\* A setter was called on "a" of a decoded object that has an id, context
\* attributes, a relationship, links and the attribute "b".
C33_Witness ==
  /\ ret.op = "set" /\ ret.attr = "a" /\ ret.err = NoErr
  /\ log = <<Logged("set", "a", ret.kind, ret.val)>>
  /\ obj.ID = "id1" /\ obj.Type = "file" /\ obj.Links # NoLink
  /\ DOMAIN obj.ContextAttributes.kv # {} /\ DOMAIN obj.Relationships # {}
  /\ "b" \in DOMAIN obj.Attributes.kv

\* C34: the producer never ends the program in objects[skip:], whatever
\* the offset it starts with and whatever the first request answers.
C34_SkipNeverAborts == panic # "slice bounds out of range"

\* C35: once a Next call of an iterator has returned false, every later
\* Next call of that iterator returns false, and Get(), Cursor() and the
\* count of objects stay as they are.
C35_FalseIsFinal ==
  [][(lastRet = "false" /\ resumes' = resumes)
       => /\ lastRet' = "false"
          /\ next' = next /\ cursor' = cursor /\ count' = count
          /\ yielded' = yielded]_vars

\* Next returned false for a fetch error after an object was yielded, and
\* was called again: the producer has closed the channel meanwhile.
C35_Witness ==
  /\ lastRet = "false" /\ err # NoErr /\ yielded # <<>>
  /\ cpc = "recv" /\ chClosed /\ ch = <<>>

\* C36: in scanWithParameters the goroutine that writes the multipart body
\* into the pipe terminates in every outcome of the call, the early returns
\* (file larger than maxFileSize, no upload URL) included: no goroutine is
\* left blocked on the pipe.
C36_GoroutineTerminates == <>(wpc = "done")

====
